---- MODULE Spec2Model ----
(***************************************************************************)
(* check-shape: a model of src/src/check_shape.py.                         *)
(*                                                                         *)
(* check_shape(arrays, shapes, shape_dict=None, keep_dict=False) validates *)
(* the .shape of one array against one pattern, or of a list of arrays     *)
(* against a list of patterns, binding symbolic axis names to sizes in a   *)
(* dict that the caller may supply and thread through several calls.       *)
(*                                                                         *)
(* Python values are modelled as follows.                                  *)
(*   - a str is the sequence of its characters (<<"d", "1">> is "d1"), so  *)
(*     that int(str) can be computed character by character;               *)
(*   - an axis specifier is a record tagged with its Python type;          *)
(*   - an array is the record of its .shape (the only thing the code       *)
(*     reads) and of an identity, so that "the same object" is stateable;  *)
(*   - a dict {str: int} is a function from strs to integers;              *)
(*   - a raised exception is the name of its class.                        *)
(***************************************************************************)
EXTENDS Integers, Sequences, FiniteSets, TLC

\* ---------------------------------------------------------------- bounds

\* Largest number of arrays, and of patterns, passed to one call.
MaxArgs == 2
\* Largest cost of the arguments of one call: about the number of axes of
\* all its arrays together (ArgsCost below).
MaxAxes == 2

\* ---------------------------------------------------------- Python values

\* The axis sizes of the arrays passed.  The code only compares a size for
\* equality, with an int specifier (line 115) or with a bound size (line
\* 127): 4 is the size that the exact specifiers used below ask for, 3 is
\* another one.
Sizes == {3, 4}

\* An int and a str axis specifier, and one of another type (None).
IntSpec(k) == [int |-> k, str |-> <<>>, type |-> "int"]
StrSpec(s) == [int |-> 0, str |-> s, type |-> "str"]
NoneSpec == [int |-> 0, str |-> <<>>, type |-> "NoneType"]

\* The strs used as specifiers: symbolic names, and strs that int() accepts.
Names == {<<"n">>, <<"d">>}
Numerals == {<<"4">>, <<"-", "1">>, <<"+", "3">>}

\* A pattern: a tuple of specifiers, a bare str, or a non-iterable (an int).
Tuple(items) == [items |-> items, str |-> <<>>, type |-> "tuple"]
BareStr(s) == [items |-> <<>>, str |-> s, type |-> "str"]
BareInt == [items |-> <<>>, str |-> <<>>, type |-> "int"]

\* An array-like object: an identity and its .shape.
Array(id, shape) == [id |-> id, shape |-> shape]

\* The empty dict.
EmptyDict == [k \in {} |-> 0]

\* d with d[k] = v set (k not yet a key).
DictSet(d, k, v) == [x \in (DOMAIN d) \cup {k} |-> IF x = k THEN v ELSE d[x]]

\* -------------------------------------------------------------- int(s2)

Digits == {"0", "1", "2", "3", "4", "5", "6", "7", "8", "9"}

DigitVal(c) ==
    CASE c = "0" -> 0 [] c = "1" -> 1 [] c = "2" -> 2 [] c = "3" -> 3
      [] c = "4" -> 4 [] c = "5" -> 5 [] c = "6" -> 6 [] c = "7" -> 7
      [] c = "8" -> 8 [] c = "9" -> 9

\* The value of a nonempty sequence of decimal digits.
RECURSIVE DecimalVal(_)
DecimalVal(cs) ==
    IF cs = <<>> THEN 0
    ELSE 10 * DecimalVal(SubSeq(cs, 1, Len(cs) - 1)) + DigitVal(cs[Len(cs)])

AllDigits(cs) == cs # <<>> /\ \A i \in 1..Len(cs) : cs[i] \in Digits

\* int(s2) that accepts an int only: every str raises ValueError.
PyInt_IntsOnly(s2) ==
    IF s2.type = "int" THEN [ok |-> TRUE, val |-> s2.int]
    ELSE [ok |-> FALSE, val |-> 0]

\* Python's int(s2) at lines 112 and 115: an int is itself; a str is parsed
\* as an optional sign followed by decimal digits, and anything else raises
\* ValueError (ok = FALSE).
PyInt(s2) ==
    IF s2.type = "int" THEN [ok |-> TRUE, val |-> s2.int]
    ELSE LET cs == s2.str
             signed == cs # <<>> /\ cs[1] \in {"-", "+"}
             body == IF signed THEN Tail(cs) ELSE cs
         IN IF AllDigits(body)
            THEN [ok |-> TRUE,
                  val |-> IF signed /\ cs[1] = "-" THEN 0 - DecimalVal(body)
                          ELSE DecimalVal(body)]
            ELSE [ok |-> FALSE, val |-> 0]

\* ------------------------------------------------------------ _check_shape

\* What a call hands back: nothing when it raised, else the tagged value.
\*   raised    the class of the exception raised, "" when none was
\*   error     which raise statement (or failing builtin) raised it
\*   returns   the form of the returned value
\*   value     the array(s) returned
\*   dict      the dict returned, when one is
\*   table     the dict the call worked on, as the call leaves it
\*   looked    the keys the call tested against the dict (line 123)
\*   inspected the number of patterns the batch loop began to look at
\*   argnum    the batch entry at which the call raised, counted from 0 as
\*             enumerate() does (-1 when it raised at none)
\*   axis      the position of the pattern at which lines 104-130 raised,
\*             counted from 1 (0 when they did not)
Outcome(raised, error, returns, value, dict, table, looked, inspected, argnum, axis) ==
    [argnum |-> argnum, axis |-> axis, dict |-> dict, error |-> error,
     inspected |-> inspected, looked |-> looked, raised |-> raised,
     returns |-> returns, table |-> table, value |-> value]

\* len(shape) at line 99 is defined for a tuple and for a str.
HasLen(shape) == shape.type \in {"tuple", "str"}

\* The specifiers zip() yields from a pattern at line 104: the items of a
\* tuple, the one-character strs of a str.
ItemsOf(shape) ==
    IF shape.type = "tuple" THEN shape.items
    ELSE [i \in 1..Len(shape.str) |-> StrSpec(<<shape.str[i]>>)]

\* Line 112 without the wildcard: -1 is an exact size like any other.
IsWildcard_Never(n) == FALSE

\* Line 112: the specifier, as an integer, is the wildcard.
IsWildcard(n) == n = -1

\* Lines 123-124 without the test: the size seen last is the one kept.
Bind_Overwrite(d, s2, s1) == DictSet(d, s2, s1)

\* Lines 123-124: name s2 is bound to size s1 unless it is bound already.
Bind(d, s2, s1) == IF s2 \notin DOMAIN d THEN DictSet(d, s2, s1) ELSE d

\* What lines 104-130 come to: the exception raised (if any) and the axis
\* at which it was, the dict as left, and the keys tested.
AxisResult(raised, error, axis, d, looked) ==
    [axis |-> axis, dict |-> d, error |-> error, looked |-> looked,
     raised |-> raised]

RECURSIVE AxisLoop(_, _, _, _, _)

\* Lines 122-130 at position i, bound being the dict after lines 123-124:
\* the size bound to the name is the one seen, or the call raises.
NameAxis(array_shape, items, i, bound, looked) ==
    IF bound[items[i].str] # array_shape[i]
    THEN AxisResult("ShapeError", "binding conflict", i, bound,
                    looked \cup {items[i].str})
    ELSE AxisLoop(array_shape, items, i + 1, bound, looked \cup {items[i].str})

\* Lines 109-130 at position i, n being int(s2) or its ValueError.
TryAxis(array_shape, items, i, d, looked, n) ==
    IF n.ok
    THEN IF IsWildcard(n.val)
         THEN AxisLoop(array_shape, items, i + 1, d, looked)
         ELSE IF array_shape[i] # n.val
         THEN AxisResult("ShapeError", "axis size", i, d, looked)
         ELSE AxisLoop(array_shape, items, i + 1, d, looked)
    ELSE NameAxis(array_shape, items, i,
                  Bind(d, items[i].str, array_shape[i]), looked)

\* Lines 104-130, from position i on, with dict d; s1 is array_shape[i] and
\* s2 is items[i].
AxisLoop(array_shape, items, i, d, looked) ==
    IF i > Len(items)
    THEN AxisResult("", "", 0, d, looked)
    ELSE IF items[i].type \notin {"str", "int"}
    THEN AxisResult("AssertionError", "specifier type", i, d, looked)
    ELSE TryAxis(array_shape, items, i, d, looked, PyInt(items[i]))

\* Lines 132-136, and the propagation of what lines 104-130 raised.
AxisReturn(array, check_string_names, r) ==
    IF r.raised # ""
    THEN Outcome(r.raised, r.error, "nothing", <<>>, EmptyDict, r.dict,
                 r.looked, 0, -1, r.axis)
    ELSE IF check_string_names
    THEN Outcome("", "", "array_dict", <<array>>, r.dict, r.dict, r.looked,
                 0, -1, 0)
    ELSE Outcome("", "", "array", <<array>>, EmptyDict, r.dict, r.looked,
                 0, -1, 0)

\* Lines 94-101 and what follows them, d being the dict of line 96.
CheckRank(array, shape, check_string_names, d) ==
    IF ~HasLen(shape)
    THEN Outcome("TypeError", "len", "nothing", <<>>, EmptyDict, d, {}, 0, -1, 0)
    ELSE IF Len(array.shape) # Len(ItemsOf(shape))
    THEN Outcome("ShapeError", "rank", "nothing", <<>>, EmptyDict, d, {}, 0, -1, 0)
    ELSE AxisReturn(array, check_string_names,
                    AxisLoop(array.shape, ItemsOf(shape), 1, d, {}))

\* _check_shape(array, shape, shape_dict, argnum); has_dict is "shape_dict is
\* not None".
_check_shape(array, shape, has_dict, shape_dict) ==
    CheckRank(array, shape, has_dict,
              IF has_dict THEN shape_dict ELSE EmptyDict)

\* ------------------------------------------------------------- check_shape

RECURSIVE BatchLoop(_, _, _, _, _)

\* Lines 73-76 at entry i, r being what _check_shape did: the loop goes on
\* with the dict it returned, or the call raises what it raised.
BatchNext(array_list, shape_list, i, looked, r) ==
    IF r.raised # ""
    THEN Outcome(r.raised, r.error, "nothing", <<>>, EmptyDict, r.table,
                 looked \cup r.looked, i, i - 1, r.axis)
    ELSE BatchLoop(array_list, shape_list, i + 1, r.dict, looked \cup r.looked)

\* Lines 55-76, from entry i on (entry i is Python's argnum i - 1), with
\* dict d; array is array_list[i] and shape is shape_list[i].
BatchLoop(array_list, shape_list, i, d, looked) ==
    IF i > Len(array_list) \/ i > Len(shape_list)
    THEN Outcome("", "", "arrays", array_list, EmptyDict, d, looked, i - 1, -1, 0)
    ELSE IF shape_list[i].type = "str"
    THEN Outcome("ShapeError", "pattern is str", "nothing", <<>>, EmptyDict,
                 d, looked, i, i - 1, 0)
    ELSE IF shape_list[i].type # "tuple"
    THEN Outcome("ShapeError", "pattern not a tuple", "nothing", <<>>,
                 EmptyDict, d, looked, i, i - 1, 0)
    ELSE IF Len(array_list[i].shape) # Len(shape_list[i].items)
    THEN Outcome("AssertionError", "rank", "nothing", <<>>, EmptyDict,
                 d, looked, i, i - 1, 0)
    ELSE BatchNext(array_list, shape_list, i, looked,
                   _check_shape(array_list[i], shape_list[i], TRUE, d))

\* Line 47 that starts a new dict also when one was passed.
StartDict_Fresh(has_dict, shape_dict) == EmptyDict

\* Line 47: the dict passed, or a new one when none was.
StartDict(has_dict, shape_dict) == IF has_dict THEN shape_dict ELSE EmptyDict

\* Line 50 without the test: the lists are zipped whatever their lengths.
CountsDiffer_Never(arrays, shapes) == FALSE

\* Line 50: the two lists differ in length.
CountsDiffer(arrays, shapes) == Len(arrays.items) # Len(shapes.items)

\* Lines 78-84, r being what lines 55-76 did.
BatchReturn(r, keep_dict) ==
    IF r.raised = "" /\ keep_dict
    THEN [r EXCEPT !.returns = "arrays_dict", !.dict = r.table]
    ELSE r

\* Lines 49-84, d being the dict of line 47.
CheckBatch(arrays, shapes, d, keep_dict) ==
    IF CountsDiffer(arrays, shapes)
    THEN Outcome("ShapeError", "count", "nothing", <<>>, EmptyDict, d, {}, 0, -1, 0)
    ELSE BatchReturn(BatchLoop(arrays.items, shapes.items, 1, d, {}), keep_dict)

\* check_shape(arrays, shapes, shape_dict, keep_dict).  arrays and shapes
\* are tagged with whether they are lists (type(x) == list): a list holds
\* its elements in .items, anything else is the one element of .items.
\* has_dict is "shape_dict is not None".
check_shape(arrays, shapes, has_dict, shape_dict, keep_dict) ==
    IF ~arrays.list /\ ~shapes.list
    THEN _check_shape(arrays.items[1], shapes.items[1], has_dict, shape_dict)
    ELSE IF arrays.list /\ shapes.list
    THEN CheckBatch(arrays, shapes, StartDict(has_dict, shape_dict), keep_dict)
    ELSE Outcome("ShapeError", "combination", "nothing", <<>>, EmptyDict,
                 IF has_dict THEN shape_dict ELSE EmptyDict, {}, 0, -1, 0)

\* ------------------------------------------------------------------ inputs

\* The axis specifiers of the patterns passed: the wildcard, an exact
\* size, the names, and a str that int() accepts.
AxisSpecs ==
    {IntSpec(-1), IntSpec(4)} \cup {StrSpec(s) : s \in Names \cup {<<"4">>}}

\* The specifiers of the calls that probe int(s2): the strs that int()
\* accepts, the empty str, which it rejects as it rejects a name, and a
\* specifier that is neither a str nor an int.
ProbeSpecs ==
    {StrSpec(s) : s \in Numerals \cup {<<>>}} \cup {NoneSpec}

\* A Python list.
List(items) == [items |-> items, list |-> TRUE]

Max(a, b) == IF a >= b THEN a ELSE b

\* r[1] + ... + r[i].
RECURSIVE SumTo(_, _)
SumTo(r, i) == IF i = 0 THEN 0 ELSE SumTo(r, i - 1) + r[i]

\* The sequence flat cut into pieces of lengths r[1], r[2], ...
Chunks(flat, r) ==
    [i \in 1..Len(r) |-> SubSeq(flat, SumTo(r, i - 1) + 1, SumTo(r, i))]

\* The kinds of pattern passed: a tuple of specifiers, or one of the two
\* malformed patterns, a bare str and a non-iterable.
PatternTypes == {"tuple", "str", "int"}

Pattern(type, items) ==
    IF type = "tuple" THEN Tuple(items)
    ELSE IF type = "str" THEN BareStr(<<"n", "d">>)
    ELSE BareInt

\* What the arguments cost: entry i costs the larger of its array's rank
\* ranks[i] and its pattern's length lens[i] (one for a malformed pattern),
\* an array or a pattern without a partner its own.
RECURSIVE ArgsCost(_, _, _, _)
ArgsCost(ranks, lens, types, i) ==
    IF i = 0 THEN 0
    ELSE ArgsCost(ranks, lens, types, i - 1)
         + Max(IF i <= Len(ranks) THEN ranks[i] ELSE 0,
               IF i > Len(lens) THEN 0
               ELSE IF types[i] = "tuple" THEN lens[i] ELSE 1)

\* The lists of arrays and of patterns with these ranks, lengths and types.
WellSized(ranks, lens, types) ==
    /\ \A i \in 1..Len(lens) : types[i] # "tuple" => lens[i] = 0
    /\ ArgsCost(ranks, lens, types, Max(Len(ranks), Len(lens))) <= MaxAxes

ArrayList(ranks, sizes) ==
    LET shape_seq == Chunks(sizes, ranks)
    IN [i \in 1..Len(ranks) |-> Array(i, shape_seq[i])]

PatternList(lens, types, specs) ==
    LET item_seq == Chunks(specs, lens)
    IN [i \in 1..Len(lens) |-> Pattern(types[i], item_seq[i])]

\* ------------------------------------------------------------------- state

VARIABLES
    pc,           \* "idle": the caller is between calls; "returned": a call
                  \* has just returned or raised
    arrays,       \* the arrays argument of that call
    shapes,       \* the shapes argument of that call
    given,        \* whether that call was passed the caller's dict
    keep_dict,    \* the keep_dict argument of that call
    result,       \* what that call did
    start_dict,   \* the dict that call started from
    threaded,     \* the dict the caller holds is the one the call before
                  \* returned
    shape_dict    \* the dict the caller holds

vars == <<pc, arrays, shapes, given, keep_dict, result, start_dict, threaded,
          shape_dict>>

NoCall == Outcome("", "", "no call", <<>>, EmptyDict, EmptyDict, {}, 0, -1, 0)

Init ==
    /\ pc = "idle"
    /\ arrays = List(<<>>)
    /\ shapes = List(<<>>)
    /\ given = FALSE
    /\ keep_dict = FALSE
    /\ result = NoCall
    /\ start_dict = EmptyDict
    /\ threaded = FALSE
    /\ shape_dict = EmptyDict

\* One call check_shape(a, s, shape_dict if g else None, k) by a caller
\* that holds shape_dict.  A dict passed is mutated in place, also when the
\* call raises.
Call(a, s, g, k) ==
    /\ pc' = "returned"
    /\ arrays' = a
    /\ shapes' = s
    /\ given' = g
    /\ keep_dict' = k
    /\ result' = check_shape(a, s, g, shape_dict, k)
    /\ start_dict' = (IF g THEN shape_dict ELSE EmptyDict)
    /\ shape_dict' = (IF g THEN result'.table ELSE shape_dict)
    /\ UNCHANGED threaded

\* The caller goes on to its next call: it drops the arguments and the
\* result of the last one, and keeps the dict a batch call returned.
Proceed ==
    /\ pc = "returned"
    /\ pc' = "idle"
    /\ arrays' = List(<<>>)
    /\ shapes' = List(<<>>)
    /\ given' = FALSE
    /\ keep_dict' = FALSE
    /\ result' = NoCall
    /\ start_dict' = EmptyDict
    /\ threaded' = (result.returns = "arrays_dict")
    /\ shape_dict' = (IF result.returns = "arrays_dict" THEN result.dict
                      ELSE shape_dict)

\* A call with n arrays of the given ranks and m patterns of the given
\* lengths and types, for every choice of sizes and specifiers; as_list and
\* ss_list say which of the two arguments are lists.
CallWith(n, m, as_list, ss_list, alphabet) ==
    \E ranks \in [1..n -> 0..MaxAxes], lens \in [1..m -> 0..MaxAxes],
       types \in [1..m -> PatternTypes] :
        /\ WellSized(ranks, lens, types)
        /\ \E sizes \in [1..SumTo(ranks, n) -> Sizes],
              specs \in [1..SumTo(lens, m) -> alphabet],
              g \in BOOLEAN, k \in BOOLEAN :
               Call([items |-> ArrayList(ranks, sizes), list |-> as_list],
                    [items |-> PatternList(lens, types, specs), list |-> ss_list],
                    g, k)

\* Calling convention (1): one array, one pattern.
CallSingle ==
    /\ pc = "idle"
    /\ CallWith(1, 1, FALSE, FALSE, AxisSpecs)

\* Calling convention (2): a list of arrays, a list of patterns.
CallBatch ==
    /\ pc = "idle"
    /\ \E n \in 0..MaxArgs, m \in 0..MaxArgs : CallWith(n, m, TRUE, TRUE, AxisSpecs)

\* A list with a non-list.
CallMixed ==
    /\ pc = "idle"
    /\ \/ \E n \in 0..MaxArgs : CallWith(n, 1, TRUE, FALSE, AxisSpecs)
       \/ \E m \in 0..MaxArgs : CallWith(1, m, FALSE, TRUE, AxisSpecs)

Next == CallSingle \/ CallBatch \/ CallMixed \/ Proceed

Spec == Init /\ [][Next]_vars

\* --------------------------------------------- calls that probe int(s2)

\* The dicts a caller may have made itself: any strs may be its keys, also
\* strs that int() accepts.
CallerKeys == {<<"4">>, <<"-", "1">>}
CallerDicts == UNION {[keys -> Sizes] : keys \in SUBSET CallerKeys}

InitProbe ==
    /\ pc = "idle"
    /\ arrays = List(<<>>)
    /\ shapes = List(<<>>)
    /\ given = FALSE
    /\ keep_dict = FALSE
    /\ result = NoCall
    /\ start_dict = EmptyDict
    /\ threaded = FALSE
    /\ shape_dict \in CallerDicts

CallSingleProbe ==
    /\ pc = "idle"
    /\ CallWith(1, 1, FALSE, FALSE, ProbeSpecs)

CallBatchProbe ==
    /\ pc = "idle"
    /\ CallWith(1, 1, TRUE, TRUE, ProbeSpecs)

NextProbe == CallSingleProbe \/ CallBatchProbe \/ Proceed

SpecProbe == InitProbe /\ [][NextProbe]_vars

\* ------------------------------------------------------------ the claims

\* A call has just returned or raised ...
Returned == pc = "returned"
\* ... in calling convention (1), (2).
IsSingle == Returned /\ ~arrays.list /\ ~shapes.list
IsBatch == Returned /\ arrays.list /\ shapes.list
Succeeded == Returned /\ result.raised = ""

\* The array and the pattern of entry i of the call (i = 1 in single mode).
ArrayOf(i) == arrays.items[i]
PatternOf(i) == shapes.items[i]

\* The integer a specifier is documented to stand for: an int stands for
\* itself, "4" for 4, "-1" for -1, "+3" for 3.
Denotes(s2) ==
    IF s2.type = "int" THEN s2.int
    ELSE IF s2.str = <<"4">> THEN 4
    ELSE IF s2.str = <<"-", "1">> THEN -1
    ELSE 3
IsInteger(s2) == s2.type = "int" \/ (s2.type = "str" /\ s2.str \in Numerals)
IsName(s2) == s2.type = "str" /\ s2.str \notin Numerals

\* An integer specifier accepts size s1.
Accepts(s2, s1) == Denotes(s2) = -1 \/ Denotes(s2) = s1

\* The call is well formed: as many patterns as arrays, each pattern a
\* sequence of strs and ints (in a batch, a tuple) as long as its array's
\* shape.
WellFormed ==
    /\ Returned
    /\ arrays.list = shapes.list
    /\ Len(arrays.items) = Len(shapes.items)
    /\ \A i \in 1..Len(shapes.items) :
           /\ HasLen(PatternOf(i))
           /\ shapes.list => PatternOf(i).type = "tuple"
           /\ Len(ItemsOf(PatternOf(i))) = Len(ArrayOf(i).shape)
           /\ \A j \in 1..Len(ItemsOf(PatternOf(i))) :
                  ItemsOf(PatternOf(i))[j].type \in {"str", "int"}

\* The positions <<entry, axis>> at which the call has both a size and a
\* specifier, the size and the specifier there, and the order in which the
\* call visits them.
Positions ==
    {ij \in (1..MaxArgs + 1) \X (1..MaxAxes + 1) :
        /\ ij[1] <= Len(arrays.items) /\ ij[1] <= Len(shapes.items)
        /\ HasLen(PatternOf(ij[1]))
        /\ ij[2] <= Len(ArrayOf(ij[1]).shape)
        /\ ij[2] <= Len(ItemsOf(PatternOf(ij[1])))}
SizeAt(ij) == ArrayOf(ij[1]).shape[ij[2]]
SpecAt(ij) == ItemsOf(PatternOf(ij[1]))[ij[2]]
Before(p, q) == p[1] < q[1] \/ (p[1] = q[1] /\ p[2] < q[2])

\* The positions among P labelled with name N, and the names that label them.
Labelled(P, N) == {p \in P : IsName(SpecAt(p)) /\ SpecAt(p).str = N}
NamesAt(P) == {SpecAt(p).str : p \in {q \in P : IsName(SpecAt(q))}}
FirstLabelled(P, N) ==
    CHOOSE p \in Labelled(P, N) : \A q \in Labelled(P, N) : ~Before(q, p)

\* Every integer specifier of the call accepts the size at its position.
IntegersMatch ==
    \A p \in Positions : IsInteger(SpecAt(p)) => Accepts(SpecAt(p), SizeAt(p))

\* The dict from, extended with each name that labels a position among P
\* and is not bound in it, bound to the size at its first such position.
BoundBy(from, P) ==
    [N \in (DOMAIN from) \cup NamesAt(P) |->
        IF N \in DOMAIN from THEN from[N] ELSE SizeAt(FirstLabelled(P, N))]

\* C1: in single mode without a dict, a call with a tuple of ints as its
\* pattern returns its array, and raises nothing, iff the pattern is as
\* long as the array's shape and each position holds -1 or the actual
\* size; in every other case it raises ShapeError.
C1_SingleIntegerPattern ==
    (/\ IsSingle
     /\ ~given
     /\ PatternOf(1).type = "tuple"
     /\ \A j \in 1..Len(PatternOf(1).items) : PatternOf(1).items[j].type = "int")
    => LET S == ArrayOf(1).shape
           P == PatternOf(1).items
       IN IF Len(S) = Len(P) /\ \A j \in 1..Len(P) : P[j].int = -1 \/ P[j].int = S[j]
          THEN /\ result.raised = ""
               /\ result.returns = "array"
               /\ result.value = <<ArrayOf(1)>>
          ELSE result.raised = "ShapeError"

\* A -1 passes at a position whose size no exact specifier used here asks
\* for, beside an exact specifier that matches.
C1_Witness ==
    /\ IsSingle
    /\ ~given
    /\ PatternOf(1) = Tuple(<<IntSpec(-1), IntSpec(4)>>)
    /\ ArrayOf(1).shape = <<3, 4>>
    /\ result.returns = "array"

\* C3: a batch call with a number of arrays other than the number of
\* patterns raises the count-mismatch ShapeError before any per-array check:
\* it has begun to look at no pattern, tested no key, and left the dict it
\* was given as it was.
C3_CountMismatchFirst ==
    (IsBatch /\ Len(arrays.items) # Len(shapes.items))
    => /\ result.raised = "ShapeError"
       /\ result.error = "count"
       /\ result.returns = "nothing"
       /\ result.inspected = 0
       /\ result.looked = {}
       /\ result.table = start_dict
       /\ given => shape_dict = start_dict

\* A count mismatch whose first pattern is malformed, with a dict passed
\* that holds bindings.
C3_Witness ==
    /\ IsBatch
    /\ Len(arrays.items) = 2
    /\ Len(shapes.items) = 1
    /\ PatternOf(1).type = "int"
    /\ given
    /\ start_dict # EmptyDict
    /\ result.error = "count"

\* C5 (as claimed): a rank mismatch, in single mode or at an entry of a
\* batch-mode call, makes the call raise ShapeError.
C5_RankMismatchIsShapeError ==
    (/\ Returned
     /\ arrays.list = shapes.list
     /\ Len(arrays.items) = Len(shapes.items)
     /\ \E i \in 1..Len(arrays.items) :
            /\ PatternOf(i).type = "tuple"
            /\ Len(PatternOf(i).items) # Len(ArrayOf(i).shape))
    => result.raised = "ShapeError"

\* C6 (as claimed): a successful single-mode call returns its array and
\* nothing else, with or without a dict passed.
C6_SingleReturnsArrayOnly ==
    (IsSingle /\ Succeeded)
    => /\ result.returns = "array"
       /\ result.value = <<ArrayOf(1)>>

\* C2: a well-formed call, single or batch, none of whose names is bound
\* when it starts and all of whose integer specifiers match, succeeds iff
\* for every name the sizes at all positions labelled with it, in whichever
\* patterns of the call, are identical; otherwise it raises the
\* binding-conflict ShapeError.
C2_NamesAgreeIffSucceeds ==
    (/\ WellFormed
     /\ IntegersMatch
     /\ NamesAt(Positions) \cap DOMAIN start_dict = {})
    => IF \A N \in NamesAt(Positions) :
              \A p, q \in Labelled(Positions, N) : SizeAt(p) = SizeAt(q)
       THEN result.raised = ""
       ELSE result.raised = "ShapeError" /\ result.error = "binding conflict"

\* A batch whose two patterns use one name for two different sizes.
C2_Witness ==
    /\ IsBatch
    /\ WellFormed
    /\ ~given
    /\ Len(shapes.items) = 2
    /\ PatternOf(1) = Tuple(<<StrSpec(<<"n">>)>>)
    /\ PatternOf(2) = Tuple(<<StrSpec(<<"n">>)>>)
    /\ ArrayOf(1).shape # ArrayOf(2).shape
    /\ result.error = "binding conflict"

\* The positions labelled with a name that the dict passed already binds
\* all have the size it binds the name to.
AgreesWithDict ==
    \A p \in Positions :
        (IsName(SpecAt(p)) /\ SpecAt(p).str \in DOMAIN start_dict)
        => SizeAt(p) = start_dict[SpecAt(p).str]

\* A batch call that is passed the dict T which the call before, a
\* successful batch call with keep_dict=True, returned.
SecondCall == IsBatch /\ threaded /\ given

\* C4 (as claimed, for well-formed second calls): the second call succeeds
\* only if every position labelled with a name of T has the size T binds it
\* to, raises the binding-conflict ShapeError if one has not, and binds the
\* names not in T on first occurrence.
C4_SecondCallConflictAlways ==
    (SecondCall /\ WellFormed)
    => /\ Succeeded => AgreesWithDict
       /\ ~AgreesWithDict
              => result.raised = "ShapeError" /\ result.error = "binding conflict"
       /\ Succeeded => result.table = BoundBy(start_dict, Positions)

\* C4 (amended): the second call succeeds only if every position labelled
\* with a name of T has the size T binds it to; if one has not, the call
\* raises, and what it raises is the binding-conflict ShapeError when it is
\* well formed and its integer specifiers all match; a call that succeeds
\* has bound the names not in T on first occurrence.
C4_SecondCallEnforcesDict ==
    SecondCall
    => /\ Succeeded => AgreesWithDict
       /\ ~AgreesWithDict
              => /\ result.raised # ""
                 /\ result.returns = "nothing"
                 /\ (WellFormed /\ IntegersMatch)
                        => /\ result.raised = "ShapeError"
                           /\ result.error = "binding conflict"
       /\ Succeeded => result.table = BoundBy(start_dict, Positions)

\* A second call that contradicts a binding of the dict it was passed.
C4_Witness ==
    /\ SecondCall
    /\ WellFormed
    /\ start_dict # EmptyDict
    /\ ~AgreesWithDict
    /\ result.error = "binding conflict"

\* d2 holds every entry of d1.
Extends(d2, d1) ==
    \A N \in DOMAIN d1 : N \in DOMAIN d2 /\ d2[N] = d1[N]

\* C7: no call, in either convention, succeeding or raising, removes an
\* entry of the dict the caller holds or changes the size an entry binds.
C7_DictMonotonic ==
    [][pc' = "returned" => Extends(shape_dict', shape_dict)]_vars

\* A call that raised after it added an entry to a dict that held one.
C7_Witness ==
    /\ Returned
    /\ given
    /\ result.raised # ""
    /\ start_dict # EmptyDict
    /\ shape_dict # start_dict

\* C8: a successful batch call that is passed no dict returns, with
\* keep_dict=True, the list of arrays it was given and a dict whose keys
\* are the names in the patterns, each bound to the size at its first
\* occurrence (integer and -1 specifiers add no key); with keep_dict=False
\* it returns the list of arrays only.
C8_BatchReturnsFirstBindings ==
    (IsBatch /\ Succeeded /\ ~given)
    => /\ result.value = arrays.items
       /\ keep_dict
              => /\ result.returns = "arrays_dict"
                 /\ result.dict = BoundBy(EmptyDict, Positions)
       /\ ~keep_dict => result.returns = "arrays"

\* A successful keep_dict call with a name and a numeral str.
C8_Witness ==
    /\ IsBatch
    /\ Succeeded
    /\ ~given
    /\ keep_dict
    /\ Len(shapes.items) = 1
    /\ PatternOf(1) = Tuple(<<StrSpec(<<"n">>), StrSpec(<<"4">>)>>)
    /\ result.dict = [N \in {<<"n">>} |-> 3]

\* The positions the call went through before it raised: those of the
\* entries before entry argnum, and those of entry argnum before the axis
\* at which it raised.
Passed ==
    {p \in Positions :
        \/ p[1] < result.argnum + 1
        \/ p[1] = result.argnum + 1 /\ p[2] < result.axis}
PassedEntries == {p \in Positions : p[1] < result.argnum + 1}

\* A batch call raised at one of its entries.
FailedAtEntry == IsBatch /\ result.raised # "" /\ result.argnum >= 0

\* C9 (as claimed): when a batch call fails at an entry it returns nothing,
\* and the dict holds what it held at the start plus the bindings made by
\* the entries before that one; the failing entry adds none.
C9_FailingEntryBindsNothing ==
    FailedAtEntry
    => /\ result.returns = "nothing"
       /\ result.table = BoundBy(start_dict, PassedEntries)

\* C9 (amended): when a batch call fails at an entry it returns nothing,
\* and the dict holds what it held at the start plus the bindings made by
\* the entries before that one and by the positions of the failing entry
\* that come before the position at which it fails.
C9_FailingEntryBindsPrefix ==
    FailedAtEntry
    => /\ result.returns = "nothing"
       /\ result.table = BoundBy(start_dict, Passed)

\* An entry that binds a name at its first position and fails at its second.
C9_Witness ==
    /\ FailedAtEntry
    /\ result.axis = 2
    /\ <<result.argnum + 1, 1>> \in Positions
    /\ IsName(SpecAt(<<result.argnum + 1, 1>>))
    /\ SpecAt(<<result.argnum + 1, 1>>).str \notin DOMAIN start_dict
    /\ result.table # start_dict

\* C10: a str that int() accepts is never a name.  No call tests it against
\* the dict, adds it as a key or changes what a dict that holds it as a key
\* binds it to; and a call whose pattern is a tuple of such strs, as long as
\* the array's shape, succeeds iff each is "-1" or the numeral of the size
\* at its position, and raises the axis-size ShapeError otherwise.
C10_NumeralIsInteger ==
    Returned
    => /\ \A s \in Numerals :
              /\ s \notin result.looked
              /\ s \in DOMAIN result.table <=> s \in DOMAIN start_dict
              /\ s \in DOMAIN start_dict => result.table[s] = start_dict[s]
       /\ (/\ WellFormed
           /\ Len(shapes.items) = 1
           /\ PatternOf(1).type = "tuple"
           /\ \A p \in Positions : SpecAt(p).type = "str" /\ IsInteger(SpecAt(p)))
          => IF \A p \in Positions : Accepts(SpecAt(p), SizeAt(p))
             THEN result.raised = ""
             ELSE result.raised = "ShapeError" /\ result.error = "axis size"

\* "4" and "-1" pass as the integers they spell, given a dict that holds
\* both as keys, bound to other sizes.
C10_Witness ==
    /\ IsSingle
    /\ given
    /\ start_dict = [s \in {<<"4">>, <<"-", "1">>} |-> 3]
    /\ PatternOf(1) = Tuple(<<StrSpec(<<"4">>), StrSpec(<<"-", "1">>)>>)
    /\ ArrayOf(1).shape = <<4, 4>>
    /\ Succeeded

====
